---- MODULE Spec2Model ----
(***************************************************************************)
(* Model of producer/financial_data_producer.py: FinancialDataGenerator    *)
(* (the account and merchant pools and generate_transaction) and           *)
(* KafkaTransactionProducer (send_transaction, run, run_burst, stop) with   *)
(* main's dispatch and signal handler.                                      *)
(*                                                                          *)
(* Random draws are inputs chosen with \E.  An identifier's random text is  *)
(* represented by the serial number of the mint that produced it.  Fields   *)
(* of a transaction that no operation of the driver reads (amount,          *)
(* currency, status, location, metadata, timestamp, transaction_id,        *)
(* the three random fields of card_info, merchant name/category/mcc) are    *)
(* left out, as are the serializers handed to KafkaProducer, which run      *)
(* inside the sink.                                                         *)
(*                                                                          *)
(* The initial state is main after the producer is constructed and the      *)
(* handlers for SIGINT and SIGTERM are installed.  With SIGINT handled by    *)
(* signal_handler, KeyboardInterrupt is not raised, so run's except clause   *)
(* has no step here.  A signal is taken between steps: at the top of a loop  *)
(* pass (which covers the sleep that ends the previous pass), between       *)
(* operations, or on entry to run's finally clause.  producer.send is the    *)
(* sink's: it returns or raises, as the environment chooses.                 *)
(***************************************************************************)
EXTENDS Integers, Sequences, FiniteSets, TLC

VARIABLES
    account_pool,   \* FinancialDataGenerator.account_pool (list)
    merchant_pool,  \* FinancialDataGenerator.merchant_pool (list)
    accMinted,      \* number of account ids minted into account_pool by generate_transaction
    merMinted,      \* number of merchants minted into merchant_pool by generate_transaction
    txn,            \* the record last returned by generate_transaction, None before the first
    running,        \* KafkaTransactionProducer.running
    message_count,  \* KafkaTransactionProducer.message_count
    calls,          \* the calls made on self.producer (the sink), in order
    pc,             \* position of the single thread of control
    op,             \* the driver operation in progress or last finished
    opsCalled,      \* number of driver operations invoked so far
    exc,            \* exception raised and not caught, "none" if none
    sig             \* where signal_handler ran: pc and Len(calls) when the signal arrived

genVars == <<account_pool, merchant_pool, accMinted, merMinted, txn>>
drvVars == <<running, message_count, calls, pc, op, opsCalled, exc, sig>>
vars == <<account_pool, merchant_pool, accMinted, merMinted, txn,
          running, message_count, calls, pc, op, opsCalled, exc, sig>>

(***************************************************************************)
(* Bounds of the exploration.                                              *)
(***************************************************************************)
MaxAccMint == 102
MaxMerMint == 52
MaxArg == 2
MaxCount == 2
MaxOps == 2

(***************************************************************************)
(* Program constants.                                                      *)
(***************************************************************************)
SeedAccounts == 100
SeedMerchants == 50
AccountCeiling == 200
MerchantCeiling == 100

TRANSACTION_TYPES == {"purchase", "withdrawal", "transfer", "deposit", "refund"}

None == [none |-> TRUE]

Min(a, b) == IF a < b THEN a ELSE b

\* The last n elements of sequence s (all of s when n >= Len(s)).
LastN(s, n) == SubSeq(s, Len(s) - Min(n, Len(s)) + 1, Len(s))

(***************************************************************************)
(* FinancialDataGenerator                                                  *)
(***************************************************************************)
\* _generate_account_id: the identifier produced by the n-th mint.
GenerateAccountId(n) == [acc |-> n]

\* _generate_merchant: the merchant record produced by the n-th mint.
GenerateMerchant(n) == [merchant_id |-> n]

\* recipient_account_id is minted by _generate_account_id and never pooled.
RecipientAccountId == GenerateAccountId(0)

\* __init__: the seeded pools.
InitAccountPool == [i \in 1..SeedAccounts |-> GenerateAccountId(i)]
InitMerchantPool == [i \in 1..SeedMerchants |-> GenerateMerchant(i)]

\* random.choice over a pool: the index drawn, taken at the two ends.
ChoiceIndices(pool) == {1, Len(pool)}

AppendAccountPopBack(pool, id) ==
    LET p == Append(pool, id)
    IN  IF Len(p) > AccountCeiling THEN SubSeq(p, 1, Len(p) - 1) ELSE p
\* account_pool.append(id); if len > 200: pop(0)
AppendAccount(pool, id) ==
    LET p == Append(pool, id)
    IN  IF Len(p) > AccountCeiling THEN Tail(p) ELSE p

AppendMerchantNoEvict(pool, m) == Append(pool, m)
\* merchant_pool.append(m); if len > 100: pop(0)
AppendMerchant(pool, m) ==
    LET p == Append(pool, m)
    IN  IF Len(p) > MerchantCeiling THEN Tail(p) ELSE p

MerchantTypesWithWithdrawal == {"purchase", "withdrawal", "refund"}
\* transaction_type in ['purchase', 'refund']
MerchantTypes == {"purchase", "refund"}

\* transaction_type in ['purchase', 'withdrawal', 'refund']
CardTypes == {"purchase", "withdrawal", "refund"}

\* card_info = {...}: a dict, its three random fields left out.
CardInfo == [card |-> TRUE]

\* The dict built at "transaction = {...}", with the transfer-only keys added.
BuildTransaction(ttype, account_id, merchant, card_info) ==
    LET base == [transaction_type |-> ttype, account_id |-> account_id,
                 merchant |-> merchant, card_info |-> card_info]
    IN  IF ttype = "transfer"
        THEN [transaction_type |-> ttype, account_id |-> account_id,
              merchant |-> merchant, card_info |-> card_info,
              recipient_account_id |-> RecipientAccountId,
              transfer_reference |-> [trf |-> 0]]
        ELSE base

\* The outcomes of "random() < p, then random.choice(pool)": an index of the
\* pool when the draw falls below the reuse threshold, 0 when it does not.
ReuseDraws(pool) == {0} \cup ChoiceIndices(pool)

\* generate_transaction under the random outcomes given as arguments: ttype
\* the type drawn, accDraw / merDraw the reuse outcome for the account and the
\* merchant.
GenerateTransaction(ttype, accDraw, merDraw) ==
    LET newAcc == GenerateAccountId(SeedAccounts + accMinted + 1)
        newMer == GenerateMerchant(SeedMerchants + merMinted + 1)
        accReuse == accDraw # 0
        account_id == IF accReuse THEN account_pool[accDraw] ELSE newAcc
        merMiss == ttype \in MerchantTypes /\ merDraw = 0
        merchant == IF ttype \in MerchantTypes
                    THEN (IF merDraw # 0 THEN merchant_pool[merDraw] ELSE newMer)
                    ELSE None
        card_info == IF ttype \in CardTypes THEN CardInfo ELSE None
    IN  /\ accReuse \/ accMinted < MaxAccMint
        /\ merMiss => merMinted < MaxMerMint
        /\ account_pool' = IF accReuse THEN account_pool
                           ELSE AppendAccount(account_pool, newAcc)
        /\ accMinted' = IF accReuse THEN accMinted ELSE accMinted + 1
        /\ merchant_pool' = IF merMiss
                            THEN AppendMerchant(merchant_pool, newMer)
                            ELSE merchant_pool
        /\ merMinted' = IF merMiss THEN merMinted + 1 ELSE merMinted
        /\ txn' = BuildTransaction(ttype, account_id, merchant, card_info)

\* One call of generate_transaction with every random outcome drawn; a draw
\* is made only on the branch that makes it.
Generate ==
    \E ttype \in TRANSACTION_TYPES :
      \E accDraw \in ReuseDraws(account_pool),
         merDraw \in (IF ttype \in MerchantTypes THEN ReuseDraws(merchant_pool) ELSE {0}) :
        GenerateTransaction(ttype, accDraw, merDraw)

GenInit ==
    /\ account_pool = InitAccountPool
    /\ merchant_pool = InitMerchantPool
    /\ accMinted = 0
    /\ merMinted = 0
    /\ txn = None

(***************************************************************************)
(* KafkaTransactionProducer                                                *)
(***************************************************************************)
\* An int argument n as passed, next to None.
IntArg(n) == [int |-> n]

\* Python truthiness of an Optional[int]: None and 0 are false.
Truthy(x) == x # None /\ x.int # 0

\* The calls on the sink.
SendCall(key, value, ok) ==
    [call |-> "send", key |-> key, account_id |-> value.account_id, ok |-> ok]
FlushCall == [call |-> "flush"]
CloseCall == [call |-> "close"]

NoOp == [name |-> "none", arg |-> None, main |-> FALSE, i |-> 0,
         start |-> 0, count0 |-> 0, gen |-> <<>>]
NoSig == [at |-> "none", len |-> 0]

DrvInit ==
    /\ running = FALSE
    /\ message_count = 0
    /\ calls = <<>>
    /\ pc = "idle"
    /\ op = NoOp
    /\ opsCalled = 0
    /\ exc = "none"
    /\ sig = NoSig

Init == GenInit /\ DrvInit

SendKeyDropped(transaction) == None
\* send_transaction: key = transaction['account_id']
SendKey(transaction) == transaction.account_id

CountBeforeSend(count, ok) == count + 1
\* send_transaction: "self.message_count += 1" follows producer.send and is
\* skipped when send raises.
CountAfterSend(count, ok) == IF ok THEN count + 1 ELSE count

\* send_transaction(transaction), ok telling whether producer.send returned.
SendTransaction(transaction, ok) ==
    /\ calls' = Append(calls, SendCall(SendKey(transaction), transaction, ok))
    /\ message_count' = CountAfterSend(message_count, ok)

\* stop(): the calls it makes on the sink.
StopCalls == <<FlushCall, CloseCall>>

\* stop(): running = False; producer.flush(); producer.close()
Stop ==
    /\ running' = FALSE
    /\ calls' = calls \o StopCalls

\* Where control goes when the operation returns: main returns after its one
\* operation and the process ends, another caller is free to call again.
Returned == IF op.main THEN "exited" ELSE "idle"

RunShouldBreakLate(max_messages, count) ==
    Truthy(max_messages) /\ count > max_messages.int
\* run: "if max_messages and self.message_count >= max_messages: break"
RunShouldBreak(max_messages, count) ==
    Truthy(max_messages) /\ count >= max_messages.int

\* run(rate, max_messages) up to the try: running = True; interval = 1.0 / rate
StartRun(rate, max_messages, main) ==
    /\ pc = "idle"
    /\ opsCalled < MaxOps
    /\ opsCalled' = opsCalled + 1
    /\ running' = TRUE
    /\ op' = [name |-> "run", arg |-> max_messages, main |-> main, i |-> 0,
              start |-> Len(calls), count0 |-> message_count, gen |-> <<>>]
    /\ IF rate = 0
       THEN pc' = "exited" /\ exc' = "ZeroDivisionError"
       ELSE pc' = "run_loop" /\ exc' = exc
    /\ UNCHANGED <<genVars, message_count, calls, sig>>

\* run_burst(count) up to the for loop
StartBurst(count, main) ==
    /\ pc = "idle"
    /\ opsCalled < MaxOps
    /\ opsCalled' = opsCalled + 1
    /\ op' = [name |-> "run_burst", arg |-> IntArg(count), main |-> main, i |-> 0,
              start |-> Len(calls), count0 |-> message_count, gen |-> <<>>]
    /\ pc' = "burst_loop"
    /\ UNCHANGED <<genVars, running, message_count, calls, exc, sig>>

IntArgs == {IntArg(n) : n \in -1..MaxArg}
Rates == {0, 1}

\* main: "if args.burst: producer.run_burst(args.burst) else: producer.run(...)"
Main ==
    /\ opsCalled = 0
    /\ \E burst \in {None} \cup IntArgs, rate \in Rates, max_messages \in {None} \cup IntArgs :
         IF Truthy(burst)
         THEN StartBurst(burst.int, TRUE)
         ELSE StartRun(rate, max_messages, TRUE)

\* A caller other than main calls run(rate, max_messages).
CallRun ==
    \E rate \in Rates, max_messages \in {None} \cup IntArgs :
        StartRun(rate, max_messages, FALSE)

\* A caller other than main calls run_burst(count).
CallRunBurst ==
    \E count \in -1..MaxArg : StartBurst(count, FALSE)

\* A caller other than main calls stop().
CallStop ==
    /\ pc = "idle"
    /\ opsCalled < MaxOps
    /\ opsCalled' = opsCalled + 1
    /\ op' = [name |-> "stop", arg |-> None, main |-> FALSE, i |-> 0,
              start |-> Len(calls), count0 |-> message_count, gen |-> <<>>]
    /\ Stop
    /\ UNCHANGED <<genVars, message_count, pc, exc, sig>>

\* One record generated and handed to send_transaction, as both loops do.
GenerateAndSend(ok) ==
    /\ message_count < MaxCount
    /\ Generate
    /\ SendTransaction(txn', ok)

\* run: one pass of "while self.running" (test, generate, send, sleep).
RunIter ==
    /\ pc = "run_loop"
    /\ IF ~running \/ RunShouldBreak(op.arg, message_count)
       THEN /\ pc' = "run_finally"
            /\ UNCHANGED <<genVars, message_count, calls, op, exc>>
       ELSE \E ok \in BOOLEAN :
            /\ GenerateAndSend(ok)
            /\ op' = [op EXCEPT !.gen = Append(@, txn'.account_id)]
            /\ pc' = IF ok THEN "run_loop" ELSE "run_finally"
            /\ exc' = IF ok THEN exc ELSE "KafkaError"
    /\ UNCHANGED <<running, opsCalled, sig>>

\* run: "finally: self.stop()", then return or let the exception go on.
RunFinally ==
    /\ pc = "run_finally"
    /\ Stop
    /\ pc' = IF exc = "none" THEN Returned ELSE "exited"
    /\ UNCHANGED <<genVars, message_count, op, opsCalled, exc, sig>>

\* run_burst: one pass of "for i in range(count)", or the flush after it.
BurstIter ==
    /\ pc = "burst_loop"
    /\ IF op.i < op.arg.int
       THEN \E ok \in BOOLEAN :
            /\ GenerateAndSend(ok)
            /\ op' = [op EXCEPT !.gen = Append(@, txn'.account_id),
                                !.i = IF ok THEN @ + 1 ELSE @]
            /\ pc' = IF ok THEN "burst_loop" ELSE "exited"
            /\ exc' = IF ok THEN exc ELSE "KafkaError"
       ELSE /\ calls' = Append(calls, FlushCall)
            /\ pc' = Returned
            /\ UNCHANGED <<genVars, message_count, op, exc>>
    /\ UNCHANGED <<running, opsCalled, sig>>

\* Where SystemExit, raised by the handler's sys.exit(0), takes control: inside
\* run's try the finally clause runs next, anywhere else the process ends.
AfterSysExit(at) == IF at = "run_loop" THEN "run_finally" ELSE "exited"

\* signal_handler on SIGINT or SIGTERM: producer.stop(); sys.exit(0)
Signal ==
    /\ pc \in {"idle", "run_loop", "run_finally", "burst_loop"}
    /\ sig' = [at |-> pc, len |-> Len(calls)]
    /\ Stop
    /\ exc' = "SystemExit"
    /\ pc' = AfterSysExit(pc)
    /\ UNCHANGED <<genVars, message_count, op, opsCalled>>

Next ==
    \/ Main
    \/ CallRun
    \/ CallRunBurst
    \/ CallStop
    \/ RunIter
    \/ RunFinally
    \/ BurstIter
    \/ Signal

Spec == Init /\ [][Next]_vars

\* The generator used on its own: repeated generate_transaction calls.
GenNext == Generate /\ UNCHANGED drvVars

SpecGen == Init /\ [][GenNext]_vars

(***************************************************************************)
(* Helpers for the properties.                                             *)
(***************************************************************************)
\* The calls made on the sink since the current operation started.
OpCalls == SubSeq(calls, op.start + 1, Len(calls))

\* The calls made on the sink since the signal arrived.
CallsSinceSignal == SubSeq(calls, sig.len + 1, Len(calls))

CountCalls(s, kind) == Cardinality({i \in 1..Len(s) : s[i].call = kind})

OkSends(s) == {i \in 1..Len(s) : s[i].call = "send" /\ s[i].ok}
FailedSends(s) == {i \in 1..Len(s) : s[i].call = "send" /\ ~s[i].ok}

\* s is n publish calls that returned, the j-th carrying the j-th generated
\* record of the operation under that record's account_id as a non-null key.
IsPublishRun(s, n) ==
    /\ Len(s) = n
    /\ Len(op.gen) = n
    /\ \A j \in 1..n :
        /\ s[j].call = "send"
        /\ s[j].ok
        /\ s[j].key # None
        /\ s[j].key = s[j].account_id
        /\ s[j].account_id = op.gen[j]

Finished == pc \in {"idle", "exited"}

(***************************************************************************)
(* Properties of the generator, checked under SpecGen.                     *)
(***************************************************************************)
\* C6: after any number of generate_transaction calls the account pool holds
\* at most 200 entries and the merchant pool at most 100.
C6_PoolsBounded ==
    /\ Len(account_pool) <= 200
    /\ Len(merchant_pool) <= 100

C6_Witness ==
    /\ accMinted > 100 /\ Len(account_pool) = 200
    /\ merMinted > 50 /\ Len(merchant_pool) = 100

\* C7: in every returned record merchant is non-null iff the type is purchase
\* or refund, card_info is non-null iff the type is purchase, withdrawal or
\* refund, and recipient_account_id and transfer_reference are present iff the
\* type is transfer.
C7_OptionalFields ==
    txn # None =>
        /\ (txn.merchant # None) <=> (txn.transaction_type \in {"purchase", "refund"})
        /\ (txn.card_info # None) <=>
               (txn.transaction_type \in {"purchase", "withdrawal", "refund"})
        /\ ("recipient_account_id" \in DOMAIN txn) <=> (txn.transaction_type = "transfer")
        /\ ("transfer_reference" \in DOMAIN txn) <=> (txn.transaction_type = "transfer")

C7_Witness ==
    /\ txn # None
    /\ txn.transaction_type = "withdrawal"
    /\ txn.card_info # None
    /\ txn.merchant = None
    /\ "recipient_account_id" \notin DOMAIN txn

\* C8: with k account ids minted on cache misses the account pool is, in
\* order, the last min(100 + k, 200) elements of the 100 seed ids followed by
\* the k minted ids; likewise the merchant pool with seed 50 and ceiling 100.
C8_PoolsFifo ==
    /\ account_pool =
         LastN([i \in 1..(100 + accMinted) |-> GenerateAccountId(i)],
               Min(100 + accMinted, 200))
    /\ merchant_pool =
         LastN([i \in 1..(50 + merMinted) |-> GenerateMerchant(i)],
               Min(50 + merMinted, 100))

C8_Witness ==
    /\ accMinted = 101
    /\ account_pool[1] = GenerateAccountId(2)
    /\ account_pool[200] = GenerateAccountId(201)
    /\ merMinted = 51
    /\ merchant_pool[1] = GenerateMerchant(2)

(***************************************************************************)
(* Properties of the driver, checked under Spec.                           *)
(***************************************************************************)
\* C1: when the signal arrives while run is inside its loop, then up to the
\* end of the process flush is called exactly once, close exactly once, and
\* no publish is made after the signal.
C1_InterruptCleansUpOnce ==
    (pc = "exited" /\ sig.at = "run_loop") =>
        /\ CountCalls(CallsSinceSignal, "flush") = 1
        /\ CountCalls(CallsSinceSignal, "close") = 1
        /\ CountCalls(CallsSinceSignal, "send") = 0

\* C2: in run and in run_burst a publish that raises propagates as fatal, and
\* before the operation terminates flush and close are still called on the
\* sink, with no publish after the failure.
C2_FailedPublishStillCleansUp ==
    (pc = "exited" /\ sig = NoSig /\ FailedSends(calls) # {}) =>
        /\ exc = "KafkaError"
        /\ \A i \in FailedSends(calls) :
            LET after == SubSeq(calls, i + 1, Len(calls))
            IN  /\ CountCalls(after, "send") = 0
                /\ \E j, k \in 1..Len(after) :
                     j < k /\ after[j].call = "flush" /\ after[k].call = "close"

\* C3: on every non-error end of the program in either mode (burst completed,
\* rate mode completed, or interrupted in either) the sink has been flushed
\* and then closed.
C3_ExitFlushedThenClosed ==
    (pc = "exited" /\ op.main /\ exc \in {"none", "SystemExit"}) =>
        \E j, k \in 1..Len(calls) :
            j < k /\ calls[j].call = "flush" /\ calls[k].call = "close"

\* run(rate, N) on a freshly constructed driver with rate > 0, N >= 1, no
\* signal and no sink error.
FreshRun ==
    /\ op.name = "run"
    /\ opsCalled = 1
    /\ op.arg # None
    /\ op.arg.int >= 1
    /\ sig = NoSig
    /\ exc = "none"

\* C4: run(rate, N) on a fresh driver, uninterrupted and without sink error,
\* leaves its loop after exactly N publish calls and then makes exactly one
\* flush and one close, none of them before the N-th publish; the loop can
\* always take its next step.
C4_RunPublishesExactlyN ==
    FreshRun =>
        /\ pc = "run_loop" =>
              /\ Len(calls) <= op.arg.int
              /\ IsPublishRun(calls, Len(calls))
              /\ ENABLED RunIter
        /\ pc = "run_finally" => IsPublishRun(calls, op.arg.int)
        /\ Finished =>
              /\ IsPublishRun(SubSeq(calls, 1, Len(calls) - 2), op.arg.int)
              /\ SubSeq(calls, Len(calls) - 1, Len(calls)) = <<FlushCall, CloseCall>>

C4_Witness ==
    /\ FreshRun
    /\ Finished
    /\ op.arg.int = 2
    /\ message_count = 2
    /\ Len(calls) = 4

\* run_burst(count) with no signal and no sink error.
CleanBurst ==
    /\ op.name = "run_burst"
    /\ sig = NoSig
    /\ exc = "none"

\* C5: run_burst(count), uninterrupted and without sink error, publishes
\* exactly count records in generation order, each under its account_id as a
\* non-null key, and then flushes exactly once, after the last publish and
\* before returning.
C5_BurstPublishesThenFlushes ==
    CleanBurst =>
        LET n == IF op.arg.int > 0 THEN op.arg.int ELSE 0
        IN  /\ pc = "burst_loop" =>
                  /\ op.i <= n
                  /\ IsPublishRun(OpCalls, op.i)
            /\ Finished =>
                  /\ IsPublishRun(SubSeq(OpCalls, 1, Len(OpCalls) - 1), n)
                  /\ Len(OpCalls) = n + 1
                  /\ OpCalls[n + 1] = FlushCall

C5_Witness ==
    /\ CleanBurst
    /\ Finished
    /\ op.arg.int = 2
    /\ Len(OpCalls) = 3
    /\ OpCalls[3] = FlushCall

\* C9: in run, whenever max_messages is set (any integer, 0 included) and the
\* counter has reached it at the top of an iteration, no record is published
\* in that iteration: every publish of the run was made with the counter
\* below max_messages.
C9_NoPublishAtOrPastMax ==
    (op.name = "run" /\ op.arg # None) =>
        \A j \in 1..Len(OpCalls) :
            OpCalls[j].call = "send" =>
                op.count0 + Cardinality(OkSends(SubSeq(OpCalls, 1, j - 1))) < op.arg.int

====
